---- MODULE Spec2Model ----
(***************************************************************************)
(* A model of pydantic_to_snowflake.py: the type mapper                    *)
(* (get_snowflake_type), the value normaliser (_make_json_serializable,    *)
(* convert_value), the schema comparison (check_table_schema) and the      *)
(* table writer (create_table, insert_data, create_table_and_insert).      *)
(*                                                                         *)
(* Strings whose characters matter (SQL type names, column names) are      *)
(* sequences of one-character strings, so that upper() and the substring   *)
(* test `in` are computed and not assumed.                                 *)
(***************************************************************************)
EXTENDS Integers, Sequences, FiniteSets, TLC

VARIABLES
    \* the type mapper
    tPc, py_type, custom_mapping, sql_type,
    \* the value normaliser
    nPc, val, safe_val, again, stored,
    \* the schema comparison
    sPc, model_fields, catalog, schema_ok,
    \* the table writer
    pc, op, skip, conn, e, log, outcome

typeVars   == <<tPc, py_type, custom_mapping, sql_type>>
normVars   == <<nPc, val, safe_val, again, stored>>
schemaVars == <<sPc, model_fields, catalog, schema_ok>>
writerVars == <<pc, op, skip, conn, e, log, outcome>>
vars       == <<typeVars, normVars, schemaVars, writerVars>>

----------------------------------------------------------------------------
(* Bounds of the model. *)

\* The largest number of entries of a custom type mapping.
MaxEntries == 2
\* The largest number of fields of a record schema and of live columns.
MaxCols == 2
\* The deepest nesting of the values handed to the normaliser.
MaxDepth == 2

----------------------------------------------------------------------------
(* Character strings. *)

\* str.upper on one character, over the alphabet the model uses.
UpperChar(c) ==
    CASE c = "a" -> "A" [] c = "c" -> "C" [] c = "d" -> "D" [] c = "e" -> "E"
      [] c = "h" -> "H" [] c = "i" -> "I" [] c = "m" -> "M" [] c = "n" -> "N"
      [] c = "r" -> "R" [] c = "t" -> "T" [] c = "v" -> "V" [] c = "x" -> "X"
      [] OTHER -> c

\* str.upper
Upper(s) == [i \in 1..Len(s) |-> UpperChar(s[i])]

\* `a in b` for two strings: a occurs in b as a contiguous run.
Contains(b, a) ==
    \E i \in 0..(Len(b) - Len(a)) : SubSeq(b, i + 1, i + Len(a)) = a

\* The SQL type names get_snowflake_type returns.
SQL_VARIANT       == <<"V", "A", "R", "I", "A", "N", "T">>
SQL_BOOLEAN       == <<"B", "O", "O", "L", "E", "A", "N">>
SQL_NUMBER        == <<"N", "U", "M", "B", "E", "R">>
SQL_FLOAT         == <<"F", "L", "O", "A", "T">>
SQL_VARCHAR       == <<"V", "A", "R", "C", "H", "A", "R">>
SQL_TIMESTAMP_NTZ == <<"T", "I", "M", "E", "S", "T", "A", "M", "P", "_", "N", "T", "Z">>
SQL_DATE          == <<"D", "A", "T", "E">>

----------------------------------------------------------------------------
(* Annotations and classes. *)

\* The classes of the model and, for each, the classes it is a subclass of
\* (its method resolution order).
Mro(name) ==
    CASE name = "bool"     -> {"bool", "int", "object"}
      [] name = "int"      -> {"int", "object"}
      [] name = "Level"    -> {"Level", "int", "Enum", "object"}
      [] name = "float"    -> {"float", "object"}
      [] name = "str"      -> {"str", "object"}
      [] name = "MyEnum"   -> {"MyEnum", "str", "Enum", "object"}
      [] name = "datetime" -> {"datetime", "date", "object"}
      [] name = "date"     -> {"date", "object"}
      [] name = "Address"  -> {"Address", "BaseModel", "object"}
      [] name = "bytes"    -> {"bytes", "object"}
      [] OTHER             -> {name, "object"}

ClassNames ==
    {"bool", "int", "Level", "float", "str", "MyEnum", "datetime", "date",
     "Address", "bytes"}

\* An annotation is a class, a parametrized alias (list[int], Optional[int],
\* ...: `name` is its origin) or some other object (None, a forward
\* reference string).
Class(name)  == [kind |-> "class", name |-> name]
Alias(name)  == [kind |-> "alias", name |-> name]
OtherObject  == [kind |-> "other", name |-> "None"]

Annotations ==
    {Class(n) : n \in ClassNames}
      \cup {Alias(o) : o \in {"list", "dict", "tuple", "set", "Union"}}
      \cup {OtherObject}

\* isinstance(py_type, type)
isinstance_type(t) == t.kind = "class"

\* typing.get_origin
get_origin(t) == IF t.kind = "alias" THEN t.name ELSE "None"

\* A key of the custom mapping: a class, a tuple of classes, or an object
\* that is neither (a string, a number).
KeyClass(name)  == [kind |-> "class", names |-> {name}]
KeyTuple(names) == [kind |-> "tuple", names |-> names]
KeyOther        == [kind |-> "other", names |-> {}]

\* issubclass(cls, key) for a class cls: "True", "False", or "TypeError" when
\* key is not a class, a tuple of classes or a union.
issubclass(cls, key) ==
    IF key.kind = "other" THEN "TypeError"
    ELSE IF key.names \cap Mro(cls.name) # {} THEN "True" ELSE "False"

----------------------------------------------------------------------------
(* get_snowflake_type *)

Return(v) == [raised |-> FALSE, value |-> v]
Raise(x)  == [raised |-> TRUE, value |-> x]

NoMatch == <<>>

\* The loop over custom_mapping.items(): the SQL type of the first entry the
\* annotation is a subclass of, NoMatch when the loop ends without a return.
RECURSIVE custom_loop(_, _, _)
custom_loop(t, mapping, i) ==
    IF i > Len(mapping) THEN NoMatch
    ELSE IF isinstance_type(t) /\ issubclass(t, mapping[i][1]) = "True"
         THEN mapping[i][2]
         ELSE custom_loop(t, mapping, i + 1)

\* The chain of issubclass tests on a class annotation, with the bool test
\* after the int test.
builtin_chain_int_first(t) ==
    LET m == Mro(t.name) IN
    IF "int" \in m THEN SQL_NUMBER
    ELSE IF "bool" \in m THEN SQL_BOOLEAN
    ELSE IF "float" \in m THEN SQL_FLOAT
    ELSE IF "str" \in m THEN SQL_VARCHAR
    ELSE IF "datetime" \in m THEN SQL_TIMESTAMP_NTZ
    ELSE IF "date" \in m THEN SQL_DATE
    ELSE SQL_VARIANT

\* The chain of issubclass tests on a class annotation.
builtin_chain(t) ==
    LET m == Mro(t.name) IN
    IF "bool" \in m THEN SQL_BOOLEAN
    ELSE IF "int" \in m THEN SQL_NUMBER
    ELSE IF "float" \in m THEN SQL_FLOAT
    ELSE IF "str" \in m THEN SQL_VARCHAR
    ELSE IF "datetime" \in m THEN SQL_TIMESTAMP_NTZ
    ELSE IF "date" \in m THEN SQL_DATE
    ELSE IF "BaseModel" \in m THEN SQL_VARIANT
    ELSE SQL_VARIANT

\* The custom loop returning the last matching entry instead of the first.
RECURSIVE custom_loop_last(_, _, _)
custom_loop_last(t, mapping, i) ==
    IF i > Len(mapping) THEN NoMatch
    ELSE LET rest == custom_loop_last(t, mapping, i + 1) IN
         IF rest # NoMatch THEN rest
         ELSE IF isinstance_type(t) /\ issubclass(t, mapping[i][1]) = "True"
              THEN mapping[i][2]
              ELSE NoMatch

custom_lookup_last(t, mapping) == custom_loop_last(t, mapping, 1)

\* for key, sql_type in custom_mapping.items(): ... return sql_type
custom_lookup(t, mapping) == custom_loop(t, mapping, 1)

get_snowflake_type(t, mapping) ==
    LET custom == IF mapping # <<>> THEN custom_lookup(t, mapping) ELSE NoMatch
    IN  IF custom # NoMatch THEN Return(custom)
        ELSE IF get_origin(t) \in {"list", "dict", "tuple", "set"}
             THEN Return(SQL_VARIANT)
        ELSE IF isinstance_type(t) THEN Return(builtin_chain(t))
        ELSE Return(SQL_VARIANT)

----------------------------------------------------------------------------
(* Values: what a field of a record can hold. *)

\* Every value is a record of the same shape. A scalar carries its text in s
\* (what str() gives); a container carries its elements in items. The items
\* of a dict and of a record instance ("model") are entries, each a key and
\* a value, in insertion order.
Scalar(tag, s)   == [tag |-> tag, s |-> s, items |-> <<>>]
Container(tag, items) == [tag |-> tag, s |-> "", items |-> items]
Entry(k, v)      == Container("entry", <<k, v>>)
KeyOf(entry)     == entry.items[1]
ValueOf(entry)   == entry.items[2]

PyInt(s)     == Scalar("int", s)
PyStr(s)     == Scalar("str", s)
PyNone       == Scalar("none", "None")
\* A NumPy scalar (an instance of np.generic), such as np.int64(7).
NpInt(s)   == Scalar("np.int64", s)

PyList(items)   == Container("list", items)
PyTuple(items)  == Container("tuple", items)
PySet(items)    == Container("set", items)
PyDict(entries) == Container("dict", entries)
\* An instance of a BaseModel subclass, with its fields.
Model(entries) == Container("model", entries)

RECURSIVE JoinWith(_, _)
\* sep.join(parts) for a sequence of strings
JoinWith(parts, sep) ==
    IF parts = <<>> THEN ""
    ELSE IF Len(parts) = 1 THEN parts[1]
    ELSE parts[1] \o sep \o JoinWith(Tail(parts), sep)

RECURSIVE repr(_)
\* repr(v), for the values that can be keys of a dict
repr(v) ==
    IF v.tag = "str" THEN "'" \o v.s \o "'"
    ELSE IF v.tag = "tuple"
         THEN IF Len(v.items) = 1 THEN "(" \o repr(v.items[1]) \o ",)"
              ELSE "(" \o JoinWith([i \in 1..Len(v.items) |-> repr(v.items[i])], ", ") \o ")"
    ELSE v.s

\* str(v): a string is itself, anything else its repr.
str(v) == IF v.tag = "str" THEN v.s ELSE repr(v)

----------------------------------------------------------------------------
(* _make_json_serializable *)

\* new_dict[new_key] = value: an existing key keeps its place and takes the
\* new value, a new key goes to the end.
SetItem(entries, k, v) ==
    IF \E i \in 1..Len(entries) : KeyOf(entries[i]) = k
    THEN [i \in 1..Len(entries) |->
            IF KeyOf(entries[i]) = k THEN Entry(k, v) ELSE entries[i]]
    ELSE Append(entries, Entry(k, v))

RECURSIVE model_dump(_)
\* BaseModel.model_dump(): the fields as a dict, nested record instances
\* dumped too, every other value (tuples, sets, keys of dicts) kept as it is.
model_dump(v) ==
    CASE v.tag = "model" ->
           PyDict([i \in 1..Len(v.items) |->
                   Entry(KeyOf(v.items[i]), model_dump(ValueOf(v.items[i])))])
      [] v.tag = "dict" ->
           PyDict([i \in 1..Len(v.items) |->
                   Entry(KeyOf(v.items[i]), model_dump(ValueOf(v.items[i])))])
      [] v.tag \in {"list", "tuple"} ->
           Container(v.tag, [i \in 1..Len(v.items) |-> model_dump(v.items[i])])
      [] OTHER -> v

\* new_key = k if isinstance(k, str) else str(k), with repr(k) for every key
new_key_repr(k) == PyStr(repr(k))

\* new_key = k if isinstance(k, str) else str(k)
new_key(k) == IF k.tag = "str" THEN k ELSE PyStr(str(k))

RECURSIVE make_json_serializable(_)
RECURSIVE rebuild_dict(_, _, _)
\* The loop over val.items() that fills new_dict.
rebuild_dict(entries, i, new_dict) ==
    IF i > Len(entries) THEN new_dict
    ELSE rebuild_dict(entries, i + 1,
            SetItem(new_dict, new_key(KeyOf(entries[i])),
                    make_json_serializable(ValueOf(entries[i]))))

make_json_serializable(v) ==
    IF v.tag = "np.int64" THEN PyInt(v.s)
    ELSE IF v.tag = "dict" THEN PyDict(rebuild_dict(v.items, 1, <<>>))
    ELSE IF v.tag = "list"
         THEN PyList([i \in 1..Len(v.items) |-> make_json_serializable(v.items[i])])
    ELSE IF v.tag = "tuple"
         THEN PyList([i \in 1..Len(v.items) |-> make_json_serializable(v.items[i])])
    ELSE IF v.tag = "model" THEN model_dump(v)
    ELSE v

----------------------------------------------------------------------------
(* convert_value *)

RECURSIVE serializable(_)
\* Whether json.dumps accepts v: no set, no record instance, no NumPy
\* scalar, and every key of a dict a str, an int or None.
serializable(v) ==
    CASE v.tag \in {"int", "str", "none"} -> TRUE
      [] v.tag \in {"list", "tuple"} ->
           \A i \in 1..Len(v.items) : serializable(v.items[i])
      [] v.tag = "dict" ->
           \A i \in 1..Len(v.items) :
               /\ KeyOf(v.items[i]).tag \in {"int", "str", "none"}
               /\ serializable(ValueOf(v.items[i]))
      [] OTHER -> FALSE

\* The JSON text of a key of a dict.
json_key(k) == "\"" \o (IF k.tag = "none" THEN "null" ELSE k.s) \o "\""

RECURSIVE json_text(_)
\* The text json.dumps gives for a serializable value.
json_text(v) ==
    CASE v.tag = "int"  -> v.s
      [] v.tag = "str"  -> "\"" \o v.s \o "\""
      [] v.tag = "none" -> "null"
      [] v.tag \in {"list", "tuple"} ->
           "[" \o JoinWith([i \in 1..Len(v.items) |-> json_text(v.items[i])], ", ") \o "]"
      [] v.tag = "dict" ->
           "{" \o JoinWith([i \in 1..Len(v.items) |->
                     json_key(KeyOf(v.items[i])) \o ": "
                         \o json_text(ValueOf(v.items[i]))], ", ") \o "}"
      [] OTHER -> "?"

\* json.dumps
json_dumps(v) ==
    IF serializable(v) THEN Return(PyStr(json_text(v))) ELSE Raise("TypeError")

RECURSIVE to_jsonable(_)
\* What BaseModel.model_dump_json() serialises: pydantic's own encoder takes
\* record instances, tuples and sets, and writes every key as a string.
to_jsonable(v) ==
    CASE v.tag = "np.int64" -> PyInt(v.s)
      [] v.tag \in {"list", "tuple", "set"} ->
           PyList([i \in 1..Len(v.items) |-> to_jsonable(v.items[i])])
      [] v.tag \in {"dict", "model"} ->
           PyDict([i \in 1..Len(v.items) |->
                   Entry(PyStr(str(KeyOf(v.items[i]))), to_jsonable(ValueOf(v.items[i])))])
      [] OTHER -> v

\* val.model_dump_json()
model_dump_json(v) == Return(PyStr(json_text(to_jsonable(v))))

convert_value(v) ==
    IF v.tag = "model" THEN model_dump_json(v)
    ELSE IF v.tag = "tuple" THEN Raise("AttributeError")
    ELSE IF v.tag \in {"list", "dict", "set"}
         THEN json_dumps(make_json_serializable(v))
    ELSE Return(v)

----------------------------------------------------------------------------
(* The values the normaliser is run on. *)

Scalars == {PyInt("1"), PyStr("a"), PyStr("1"), PyNone, NpInt("7")}

\* Hashable values: the keys of the dicts.
DictKeys == {PyStr("a"), PyInt("1"), PyStr("1"), PyTuple(<<PyStr("a"), PyInt("1")>>)}

Leaves ==
    Scalars \cup {PyList(<<>>), PyDict(<<>>), PySet(<<PyInt("1"), PyStr("a")>>)}

\* The values that hold v one level down.
Wrap(v) ==
    {PyList(<<v>>), PyList(<<PyInt("1"), v>>), PyTuple(<<v>>), PyTuple(<<PyStr("a"), v>>),
     Model(<<Entry(PyStr("f"), v)>>),
     PyDict(<<Entry(PyInt("1"), v), Entry(PyStr("1"), PyStr("a"))>>),
     PyDict(<<Entry(PyStr("1"), PyInt("1")), Entry(PyInt("1"), v)>>)}
      \cup {PyDict(<<Entry(k, v)>>) : k \in DictKeys}

RECURSIVE Values(_)
\* The values nested at most d deep.
Values(d) ==
    IF d = 0 THEN Leaves
    ELSE LET below == Values(d - 1) IN below \cup UNION {Wrap(v) : v \in below}

----------------------------------------------------------------------------
(* check_table_schema *)

\* The answer of the catalog query: the query raises (the table or the
\* schema is unknown, the connection is closed), or returns rows of
\* (COLUMN_NAME, DATA_TYPE) in ordinal position.
QueryRaises == [raises |-> TRUE, rows |-> <<>>]
Rows(rows)  == [raises |-> FALSE, rows |-> rows]

\* expected: one (field_name.upper(), type.upper()) per field, in order.
expected_columns(fields, mapping) ==
    [i \in 1..Len(fields) |->
        <<Upper(fields[i][1]),
          Upper(get_snowflake_type(fields[i][2], mapping).value)>>]

\* One pass of the zip loop: both tests on the pair at position i, with the
\* type test by equality instead of containment.
pair_matches_exact(exp, row) ==
    /\ exp[1] = Upper(row[1])
    /\ exp[2] = Upper(row[2])

\* One pass of the zip loop: both tests on the pair at position i.
pair_matches(exp, row) ==
    /\ exp[1] = Upper(row[1])
    /\ Contains(Upper(row[2]), exp[2])

RECURSIVE zip_loop(_, _, _)
\* for (exp_col, exp_type), (act_col, act_type, *_) in zip(expected, rows)
zip_loop(expected, rows, i) ==
    IF i > Len(expected) \/ i > Len(rows) THEN TRUE
    ELSE IF ~pair_matches(expected[i], rows[i]) THEN FALSE
    ELSE zip_loop(expected, rows, i + 1)

check_table_schema(fields, mapping, answer) ==
    IF answer.raises THEN FALSE
    ELSE IF answer.rows = <<>> THEN FALSE
    ELSE LET expected == expected_columns(fields, mapping) IN
         IF Len(expected) # Len(answer.rows) THEN FALSE
         ELSE zip_loop(expected, answer.rows, 1)

\* Sequences of at most n elements of S, no two with the same first component
\* (the names of fields, the names of columns, the keys of a mapping).
RECURSIVE Named(_, _)
Named(S, n) ==
    IF n = 0 THEN {<<>>}
    ELSE LET shorter == Named(S, n - 1) IN
         shorter \cup
         {Append(q, x) : q \in {r \in shorter : Len(r) = n - 1},
                         x \in S}

Distinct(q) == \A i, j \in 1..Len(q) : i # j => q[i][1] # q[j][1]

FieldNames  == {<<"i", "d">>, <<"n", "m">>, <<"t", "s">>}
ColumnNames == {<<"I", "D">>, <<"i", "d">>, <<"N", "M">>}
\* DATA_TYPE values: VARCHAR(16777216), varchar, NUMBER, Text, VAR.
LiveTypes ==
    {SQL_VARCHAR \o <<"(", "1", "6", "7", "7", "7", "2", "1", "6", ")">>,
     <<"v", "a", "r", "c", "h", "a", "r">>,
     SQL_NUMBER,
     <<"T", "e", "x", "t">>,
     <<"V", "A", "R">>}

Schemas  == {q \in Named(FieldNames \X {Class("int"), Class("str")}, MaxCols) : Distinct(q)}
Catalogs == {q \in Named(ColumnNames \X LiveTypes, MaxCols) : Distinct(q)}

\* The custom mappings of the writer under test: none, or str as "text".
WriterMappings == {<<>>, <<<<KeyClass("str"), <<"t", "e", "x", "t">>>>>>}

----------------------------------------------------------------------------
(* The custom mappings the type mapper is run on. *)

MappingKeys ==
    {KeyClass("str"), KeyClass("int"), KeyClass("Enum"), KeyClass("date"),
     KeyTuple({"int", "float"}), KeyOther}
MappingTypes == {SQL_VARCHAR, SQL_NUMBER, <<"t", "e", "x", "t">>}
Mappings == {q \in Named(MappingKeys \X MappingTypes, MaxEntries) : Distinct(q)}

----------------------------------------------------------------------------
(* The three pure components, each run on every input of its bounded set. *)

Pending == [raised |-> FALSE, value |-> <<>>]

TypeIdle ==
    /\ tPc = "idle" /\ py_type = OtherObject /\ custom_mapping = <<>>
    /\ sql_type = Pending
NormIdle ==
    /\ nPc = "idle" /\ val = PyNone /\ safe_val = PyNone /\ again = PyNone
    /\ stored = Pending
SchemaIdle ==
    /\ sPc = "idle" /\ model_fields = <<>> /\ catalog = QueryRaises
    /\ schema_ok = FALSE
WriterIdle ==
    /\ pc = "idle" /\ op = "none" /\ skip = FALSE /\ conn = "none"
    /\ e = "" /\ log = <<>> /\ outcome = "none"

\* get_snowflake_type(py_type, custom_mapping)
GetSnowflakeType ==
    /\ tPc = "call"
    /\ sql_type' = get_snowflake_type(py_type, custom_mapping)
    /\ tPc' = "done"
    /\ UNCHANGED <<py_type, custom_mapping, normVars, schemaVars, writerVars>>

TypeInit ==
    /\ tPc = "call" /\ py_type \in Annotations /\ custom_mapping \in Mappings
    /\ sql_type = Pending
    /\ NormIdle /\ SchemaIdle /\ WriterIdle

SpecTypes == TypeInit /\ [][GetSnowflakeType]_vars

\* _make_json_serializable(val)
MakeJsonSerializable ==
    /\ nPc = "call"
    /\ safe_val' = make_json_serializable(val)
    /\ nPc' = "normalized"
    /\ UNCHANGED <<val, again, stored, typeVars, schemaVars, writerVars>>

\* _make_json_serializable applied to its own result
MakeJsonSerializableAgain ==
    /\ nPc = "normalized"
    /\ again' = make_json_serializable(safe_val)
    /\ nPc' = "twice"
    /\ UNCHANGED <<val, safe_val, stored, typeVars, schemaVars, writerVars>>

\* convert_value(val)
ConvertValue ==
    /\ nPc = "call"
    /\ stored' = convert_value(val)
    /\ nPc' = "converted"
    /\ UNCHANGED <<val, safe_val, again, typeVars, schemaVars, writerVars>>

NormInit ==
    /\ nPc = "call" /\ val \in Values(MaxDepth)
    /\ safe_val = PyNone /\ again = PyNone /\ stored = Pending
    /\ TypeIdle /\ SchemaIdle /\ WriterIdle

NormNext == MakeJsonSerializable \/ MakeJsonSerializableAgain \/ ConvertValue

SpecNormalize == NormInit /\ [][NormNext]_vars

\* check_table_schema(model_class), the catalog answering `catalog`
CheckTableSchema ==
    /\ sPc = "call"
    /\ schema_ok' = check_table_schema(model_fields, custom_mapping, catalog)
    /\ sPc' = "done"
    /\ UNCHANGED <<model_fields, catalog, typeVars, normVars, writerVars>>

SchemaInit ==
    /\ sPc = "call" /\ model_fields \in Schemas
    /\ catalog \in {QueryRaises} \cup {Rows(r) : r \in Catalogs}
    /\ schema_ok = FALSE
    /\ tPc = "idle" /\ py_type = OtherObject /\ custom_mapping \in WriterMappings
    /\ sql_type = Pending
    /\ NormIdle /\ WriterIdle

SpecSchema == SchemaInit /\ [][CheckTableSchema]_vars

----------------------------------------------------------------------------
(* Claims about the type mapper, checked under SpecTypes. *)

\* The fixed rule list of the type mapper, in priority order.
BuiltinRules ==
    <<<<"bool", SQL_BOOLEAN>>, <<"int", SQL_NUMBER>>, <<"float", SQL_FLOAT>>,
      <<"str", SQL_VARCHAR>>, <<"datetime", SQL_TIMESTAMP_NTZ>>,
      <<"date", SQL_DATE>>, <<"BaseModel", SQL_VARIANT>>>>

Least(S) == CHOOSE i \in S : \A j \in S : i <= j

\* The type of the first rule a class annotation is a subtype of.
FirstRule(t) ==
    LET hits == {i \in 1..Len(BuiltinRules) : BuiltinRules[i][1] \in Mro(t.name)}
    IN  IF hits = {} THEN SQL_VARIANT ELSE BuiltinRules[Least(hits)][2]

\* What the rule list gives with no custom mapping.
RuleListType(t) ==
    IF t.kind = "alias" /\ t.name \in {"list", "dict", "tuple", "set"}
    THEN SQL_VARIANT
    ELSE IF t.kind = "class" THEN FirstRule(t)
    ELSE SQL_VARIANT

\* C5: with no custom mapping, get_snowflake_type never raises and returns
\* what the fixed rule list gives: VARIANT for a parametrized
\* list/dict/tuple/set, the first matching rule for a class (so BOOLEAN and
\* not NUMBER for a subtype of bool, TIMESTAMP_NTZ and not DATE for a
\* subtype of datetime), VARIANT for anything else.
C5_RuleList ==
    (tPc = "done" /\ custom_mapping = <<>>) =>
        /\ ~sql_type.raised
        /\ sql_type.value = RuleListType(py_type)
        /\ (py_type.kind = "class" /\ "bool" \in Mro(py_type.name))
              => sql_type.value = SQL_BOOLEAN
        /\ (py_type.kind = "class" /\ "datetime" \in Mro(py_type.name))
              => sql_type.value = SQL_TIMESTAMP_NTZ

C5_Witness ==
    /\ tPc = "done" /\ custom_mapping = <<>>
    /\ py_type = Class("bool") /\ sql_type = Return(SQL_BOOLEAN)

\* The entries of the mapping that the annotation matches when only a class
\* can be a matcher.
ClassHits(t, mapping) ==
    {i \in 1..Len(mapping) :
        /\ t.kind = "class"
        /\ mapping[i][1].kind = "class"
        /\ mapping[i][1].names \subseteq Mro(t.name)}

\* The entries of the mapping that the annotation matches when a matcher is
\* whatever the subtype test accepts: a class, or a tuple (or union) of
\* classes, which matches a subtype of any of its members.
AcceptedHits(t, mapping) ==
    {i \in 1..Len(mapping) :
        /\ t.kind = "class"
        /\ mapping[i][1].kind \in {"class", "tuple"}
        /\ mapping[i][1].names \cap Mro(t.name) # {}}

\* C6 as stated: with a custom mapping, the result is the type of the first
\* entry whose matcher is a class the annotation is a subtype of, every
\* entry with a non-class matcher being skipped; with no such entry it is
\* the result without a custom mapping.
C6_NonClassSkipped ==
    (tPc = "done" /\ custom_mapping # <<>>) =>
        /\ ~sql_type.raised
        /\ sql_type.value =
             IF ClassHits(py_type, custom_mapping) # {}
             THEN custom_mapping[Least(ClassHits(py_type, custom_mapping))][2]
             ELSE RuleListType(py_type)

\* C6, amended: with a custom mapping, the result is the type of the first
\* entry, in insertion order, whose matcher the subtype test accepts and the
\* annotation is a subtype of (a class, or a tuple of classes one of which
\* it is a subtype of); an entry whose matcher the subtype test rejects is
\* skipped without raising; with no matching entry, or an annotation that is
\* not a class, it is the result without a custom mapping.
C6_FirstMatch ==
    (tPc = "done" /\ custom_mapping # <<>>) =>
        /\ ~sql_type.raised
        /\ sql_type.value =
             IF AcceptedHits(py_type, custom_mapping) # {}
             THEN custom_mapping[Least(AcceptedHits(py_type, custom_mapping))][2]
             ELSE RuleListType(py_type)

\* MyEnum (a subclass of str) against a mapping whose first entry is skipped
\* and whose two other entries both match.
C6_Witness ==
    /\ tPc = "done"
    /\ py_type = Class("MyEnum")
    /\ Len(custom_mapping) = 2
    /\ custom_mapping[1] = <<KeyClass("Enum"), <<"t", "e", "x", "t">>>>
    /\ custom_mapping[2] = <<KeyClass("str"), SQL_VARCHAR>>
    /\ sql_type = Return(<<"t", "e", "x", "t">>)

----------------------------------------------------------------------------
(* Claims about the schema comparison, checked under SpecSchema. *)

\* Equal counts and, position by position, equal uppercased names and the
\* uppercased mapped type contained in the uppercased live type.
AllPositionsMatch ==
    /\ Len(model_fields) = Len(catalog.rows)
    /\ \A i \in 1..Len(model_fields) :
         /\ Upper(model_fields[i][1]) = Upper(catalog.rows[i][1])
         /\ Contains(Upper(catalog.rows[i][2]),
                     Upper(get_snowflake_type(model_fields[i][2], custom_mapping).value))

\* C4 as stated: whenever the retrieval does not raise, check_table_schema
\* returns true exactly when the counts are equal and every position matches.
C4_ExactlyWhenAllMatch ==
    (sPc = "done" /\ ~catalog.raises) => (schema_ok <=> AllPositionsMatch)

\* C4, amended: for a live column list that is not empty, check_table_schema
\* returns true exactly when the counts are equal and every position
\* matches (false when the counts differ, true for VARCHAR against
\* VARCHAR(16777216)); for an empty live column list it returns false, also
\* for a schema without fields.
C4_NonEmptyExactlyWhenAllMatch ==
    (sPc = "done" /\ ~catalog.raises) =>
        /\ catalog.rows # <<>> => (schema_ok <=> AllPositionsMatch)
        /\ catalog.rows = <<>> => ~schema_ok
        /\ Len(catalog.rows) # Len(model_fields) => ~schema_ok

C4_Witness ==
    /\ sPc = "done" /\ schema_ok /\ custom_mapping = <<>>
    /\ Len(model_fields) = 2
    /\ model_fields[2][2] = Class("str")
    /\ model_fields[2][1] = <<"n", "m">> /\ catalog.rows[2][1] = <<"N", "M">>
    /\ Len(catalog.rows[2][2]) > Len(SQL_VARCHAR)

----------------------------------------------------------------------------
(* Claims about the value normaliser, checked under SpecNormalize. *)

RECURSIVE IsNormalized(_)
\* A NormalizedValue: a primitive scalar, a list of NormalizedValues, or a
\* dict from strings to NormalizedValues.
IsNormalized(v) ==
    CASE v.tag \in {"int", "str", "none"} -> TRUE
      [] v.tag = "list" -> \A i \in 1..Len(v.items) : IsNormalized(v.items[i])
      [] v.tag = "dict" ->
           \A i \in 1..Len(v.items) :
               /\ KeyOf(v.items[i]).tag = "str"
               /\ IsNormalized(ValueOf(v.items[i]))
      [] OTHER -> FALSE

\* C7: the result of _make_json_serializable holds, at no depth, a record
\* instance, a tuple, a set or a dict with a key that is not a string.
C7_ResultIsNormalized ==
    nPc \in {"normalized", "twice"} => IsNormalized(safe_val)

\* C8: convert_value on a list, a dict or a set returns the JSON text of the
\* normalised value and does not raise; only a tuple makes it raise.
C8_ContainersEncode ==
    nPc = "converted" =>
        /\ val.tag \in {"list", "dict", "set"} =>
             /\ ~stored.raised
             /\ stored.value = PyStr(json_text(make_json_serializable(val)))
        /\ stored.raised => val.tag = "tuple"

RECURSIVE Plain(_)
\* Built from primitive scalars, lists, tuples and dicts with any keys.
Plain(v) ==
    CASE v.tag \in {"int", "str", "none"} -> TRUE
      [] v.tag \in {"list", "tuple"} -> \A i \in 1..Len(v.items) : Plain(v.items[i])
      [] v.tag = "dict" ->
           \A i \in 1..Len(v.items) :
               Plain(KeyOf(v.items[i])) /\ Plain(ValueOf(v.items[i]))
      [] OTHER -> FALSE

\* C10: on a value built from primitive scalars, lists, tuples and dicts,
\* normalising the normalised value changes nothing.
C10_Idempotent ==
    (nPc = "twice" /\ Plain(val)) => again = safe_val

\* A dict with a tuple key and a tuple value, normalised twice.
C10_Witness ==
    /\ nPc = "twice"
    /\ val = PyDict(<<Entry(PyTuple(<<PyStr("a"), PyInt("1")>>),
                            PyTuple(<<PyInt("1")>>))>>)
    /\ safe_val = PyDict(<<Entry(PyStr("('a', 1)"), PyList(<<PyInt("1")>>))>>)

----------------------------------------------------------------------------
(* The table writer: create_table, insert_data, create_table_and_insert. *)

\* The target of the writer under test.
database == "D"
schema   == "S"
table    == "T"

\* A string of characters as text.
Text(chars) == JoinWith(chars, "")

\* get_create_table_sql
get_create_table_sql(fields, mapping) ==
    "CREATE OR REPLACE TABLE " \o database \o "." \o schema \o "." \o table
      \o " ("
      \o JoinWith([i \in 1..Len(fields) |->
                     Text(Upper(fields[i][1])) \o " "
                       \o Text(get_snowflake_type(fields[i][2], mapping).value)],
                  ", ")
      \o ")"

\* insert_stmt, with the column names quoted or not
insert_stmt(fields, quoted) ==
    "INSERT INTO " \o schema \o "." \o table \o " ("
      \o JoinWith([i \in 1..Len(fields) |->
                     IF quoted THEN "\"" \o Text(Upper(fields[i][1])) \o "\""
                     ELSE Text(Upper(fields[i][1]))],
                  ", ")
      \o ") VALUES ("
      \o JoinWith([i \in 1..Len(fields) |-> "%s"], ", ")
      \o ")"

\* One call on the connection (or of one of the writer's own methods), the
\* SQL text it was given, and whether it returned (ok) or raised.
Ev(call, arg, ok) == [call |-> call, arg |-> arg, ok |-> ok]
Enter(method)     == Ev(method, "", TRUE)

\* The message of the exception a failed call raises.
Err(call) == "error in " \o call

Running      == [state |-> "running", error |-> <<>>]
Returned     == [state |-> "returned", error |-> <<>>]
Raised(msg)  == [state |-> "raised", error |-> msg]

\* RuntimeError(f"{prefix}{e}; fallback also failed: {e2}"), without {e}
combined_error_second_only(prefix, e1, e2) ==
    <<prefix, "; fallback also failed: ", e2>>

\* RuntimeError(f"{prefix}{e}; fallback also failed: {e2}")
combined_error(prefix, e1, e2) ==
    <<prefix, e1, "; fallback also failed: ", e2>>

\* The test of create_table_and_insert, without the `not`.
creates_table_when_valid(skip_if_valid, valid) ==
    IF skip_if_valid THEN valid ELSE TRUE

\* Whether create_table_and_insert calls create_table: the schema check
\* decides when skip_table_creation_if_valid is set, otherwise always.
creates_table(skip_if_valid, valid) ==
    IF skip_if_valid THEN ~valid ELSE TRUE

\* cur = connection.cursor(); cur.executemany(stmt, records);
\* connection.commit(); cur.close(): the calls made when the call named
\* `failing` raises ("none": all four return).
RowInsertCalls == <<"connection.cursor", "cursor.executemany",
                    "connection.commit", "cursor.close">>

row_insert(stmt, failing) ==
    LET last == IF failing = "none" THEN Len(RowInsertCalls)
                ELSE CHOOSE i \in 1..Len(RowInsertCalls) : RowInsertCalls[i] = failing
    IN  [i \in 1..last |->
            Ev(RowInsertCalls[i],
               IF RowInsertCalls[i] = "cursor.executemany" THEN stmt ELSE "",
               RowInsertCalls[i] # failing)]

Failures == {"none"} \cup {RowInsertCalls[i] : i \in 1..Len(RowInsertCalls)}

\* The catalog answers the writer meets: the query raises, no rows, the rows
\* of the table as create_table makes it, the rows of another table.
WriterCatalogs ==
    {QueryRaises, Rows(<<>>),
     Rows(<<<<<<"I", "D">>, SQL_NUMBER>>,
            <<<<"N", "M">>, SQL_VARCHAR \o <<"(", "1", "6", ")">>>>>>),
     Rows(<<<<<<"I", "D">>, SQL_NUMBER>>>>)}

WriterFields == <<<<<<"i", "d">>, Class("int")>>, <<<<"n", "m">>, Class("str")>>>>

\* A call of create_table_and_insert(model_class, data, skip)
CallCreateTableAndInsert ==
    /\ pc = "ready"
    /\ \E s \in BOOLEAN :
         /\ skip' = s
         /\ pc' = IF s THEN "check_table_schema" ELSE "create_table"
    /\ op' = "create_table_and_insert"
    /\ log' = Append(log, Enter("create_table_and_insert"))
    /\ UNCHANGED <<conn, e, outcome, typeVars, normVars, schemaVars>>

\* A call of create_table(model_class)
CallCreateTable ==
    /\ pc = "ready"
    /\ op' = "create_table"
    /\ pc' = "create_table"
    /\ UNCHANGED <<skip, conn, e, log, outcome, typeVars, normVars, schemaVars>>

\* A call of insert_data(model_class, data)
CallInsertData ==
    /\ pc = "ready"
    /\ op' = "insert_data"
    /\ pc' = "insert_data"
    /\ UNCHANGED <<skip, conn, e, log, outcome, typeVars, normVars, schemaVars>>

\* if not self.check_table_schema(model_class): self.create_table(...)
CheckSchemaStep ==
    /\ pc = "check_table_schema"
    /\ \E answer \in WriterCatalogs :
         /\ catalog' = answer
         /\ schema_ok' = check_table_schema(model_fields, custom_mapping, answer)
         /\ log' = log \o <<Enter("check_table_schema"),
                            Ev("cursor.execute", "catalog query", ~answer.raises)>>
    /\ pc' = IF creates_table(skip, schema_ok') THEN "create_table" ELSE "insert_data"
    /\ UNCHANGED <<op, skip, conn, e, outcome, typeVars, normVars, sPc, model_fields>>

\* Where create_table returns to.
AfterCreateTable == IF op = "create_table" THEN "done" ELSE "insert_data"

\* create_table: cur = self.connection.cursor(); cur.execute(create_table_sql)
CreateTablePrimary ==
    /\ pc = "create_table"
    /\ LET ddl == get_create_table_sql(model_fields, custom_mapping) IN
       \/ /\ log' = log \o <<Enter("create_table"), Ev("connection.cursor", "", TRUE),
                             Ev("cursor.execute", ddl, TRUE)>>
          /\ pc' = AfterCreateTable
          /\ outcome' = IF op = "create_table" THEN Returned ELSE outcome
          /\ e' = e
       \/ /\ log' = log \o <<Enter("create_table"), Ev("connection.cursor", "", TRUE),
                             Ev("cursor.execute", ddl, FALSE)>>
          /\ e' = Err("cursor.execute")
          /\ pc' = "create_table_fallback"
          /\ outcome' = outcome
       \/ /\ log' = log \o <<Enter("create_table"), Ev("connection.cursor", "", FALSE)>>
          /\ e' = Err("connection.cursor")
          /\ pc' = "create_table_fallback"
          /\ outcome' = outcome
    /\ UNCHANGED <<op, skip, conn, typeVars, normVars, schemaVars>>

\* create_table, except Exception as e: self.connection.execute(create_table_sql)
CreateTableFallback ==
    /\ pc = "create_table_fallback"
    /\ LET ddl == get_create_table_sql(model_fields, custom_mapping) IN
       \/ /\ log' = Append(log, Ev("connection.execute", ddl, TRUE))
          /\ pc' = AfterCreateTable
          /\ outcome' = IF op = "create_table" THEN Returned ELSE outcome
       \/ /\ log' = Append(log, Ev("connection.execute", ddl, FALSE))
          /\ pc' = "done"
          /\ outcome' = Raised(combined_error("Table creation failed: ", e,
                                              Err("connection.execute")))
    /\ UNCHANGED <<op, skip, conn, e, typeVars, normVars, schemaVars>>

\* insert_data: df = self.to_dataframe(...), then the test of the dialect
\* attribute. to_dataframe calls convert_value on every field of every
\* record, outside any try.
InsertDataStart ==
    /\ pc = "insert_data"
    /\ log' = Append(log, Enter("insert_data"))
    /\ IF convert_value(val).raised
       THEN /\ pc' = "done"
            /\ outcome' = Raised(<<convert_value(val).value>>)
       ELSE /\ pc' = IF conn.dialect THEN "to_sql" ELSE "import_write_pandas"
            /\ outcome' = outcome
    /\ UNCHANGED <<op, skip, conn, e, typeVars, normVars, schemaVars>>

\* insert_data, hasattr(self.connection, "dialect"): df.to_sql(...)
InsertToSql ==
    /\ pc = "to_sql"
    /\ \/ /\ log' = Append(log, Ev("df.to_sql", "", TRUE))
          /\ outcome' = Returned
       \/ /\ log' = Append(log, Ev("df.to_sql", "", FALSE))
          /\ outcome' = Raised(<<"SQLAlchemy insertion failed: ", Err("df.to_sql")>>)
    /\ pc' = "done"
    /\ UNCHANGED <<op, skip, conn, e, typeVars, normVars, schemaVars>>

\* insert_data: from snowflake.connector.pandas_tools import write_pandas
ImportWritePandas ==
    /\ pc = "import_write_pandas"
    /\ log' = Append(log, Ev("import write_pandas", "", conn.helper))
    /\ pc' = IF conn.helper THEN "write_pandas" ELSE "except ImportError"
    /\ UNCHANGED <<op, skip, conn, e, outcome, typeVars, normVars, schemaVars>>

\* insert_data: success, ... = write_pandas(...); if not success: raise
WritePandas ==
    /\ pc = "write_pandas"
    /\ \/ /\ log' = Append(log, Ev("write_pandas", "success", TRUE))
          /\ pc' = "done"
          /\ outcome' = Returned
          /\ e' = e
       \/ /\ log' = Append(log, Ev("write_pandas", "not success", TRUE))
          /\ e' = "write_pandas failed to insert data."
          /\ pc' = "except Exception"
          /\ outcome' = outcome
       \/ /\ log' = Append(log, Ev("write_pandas", "", FALSE))
          /\ e' = Err("write_pandas")
          /\ pc' = "except Exception"
          /\ outcome' = outcome
    /\ UNCHANGED <<op, skip, conn, typeVars, normVars, schemaVars>>

\* insert_data, except ImportError: the insert with the column names as they
\* are. An exception raised in this handler leaves the try statement: the
\* except Exception clause of the same statement does not see it.
ExceptImportError ==
    /\ pc = "except ImportError"
    /\ \E failing \in Failures :
         /\ log' = log \o row_insert(insert_stmt(model_fields, FALSE), failing)
         /\ outcome' = IF failing = "none" THEN Returned
                       ELSE Raised(<<Err(failing)>>)
    /\ pc' = "done"
    /\ UNCHANGED <<op, skip, conn, e, typeVars, normVars, schemaVars>>

\* insert_data, except Exception as e: the insert with the column names
\* quoted, and the combined RuntimeError when it raises too.
ExceptException ==
    /\ pc = "except Exception"
    /\ \E failing \in Failures :
         /\ log' = log \o row_insert(insert_stmt(model_fields, TRUE), failing)
         /\ outcome' = IF failing = "none" THEN Returned
                       ELSE Raised(combined_error("Data insertion failed: ", e,
                                                  Err(failing)))
    /\ pc' = "done"
    /\ UNCHANGED <<op, skip, conn, e, typeVars, normVars, schemaVars>>

\* After construction: a connection with or without the dialect attribute,
\* write_pandas importable or not, and the records to insert.
WriterInit ==
    /\ pc = "ready" /\ op = "none" /\ skip = FALSE
    /\ conn \in [dialect : BOOLEAN, helper : BOOLEAN]
    /\ e = "" /\ log = <<>> /\ outcome = Running
    /\ val \in {PyList(<<PyStr("x"), PyStr("y")>>), PyTuple(<<PyInt("1")>>)}
    /\ nPc = "idle" /\ safe_val = PyNone /\ again = PyNone /\ stored = Pending
    /\ sPc = "idle" /\ model_fields = WriterFields /\ catalog = QueryRaises
    /\ schema_ok = FALSE
    /\ TypeIdle

WriterNext ==
    \/ CallCreateTableAndInsert \/ CallCreateTable \/ CallInsertData
    \/ CheckSchemaStep \/ CreateTablePrimary \/ CreateTableFallback
    \/ InsertDataStart \/ InsertToSql \/ ImportWritePandas \/ WritePandas
    \/ ExceptImportError \/ ExceptException

SpecWriter == WriterInit /\ [][WriterNext]_vars

\* The whole program: any of the four components.
Init == TypeInit \/ NormInit \/ SchemaInit \/ WriterInit
Next == GetSnowflakeType \/ NormNext \/ CheckTableSchema \/ WriterNext
Spec == Init /\ [][Next]_vars

----------------------------------------------------------------------------
(* Claims about the table writer, checked under SpecWriter. *)

Calls(call) == {i \in DOMAIN log : log[i].call = call}
Called(call) == Calls(call) # {}

DDL         == get_create_table_sql(model_fields, custom_mapping)
UnquotedSql == insert_stmt(model_fields, FALSE)
QuotedSql   == insert_stmt(model_fields, TRUE)

Executemany(stmt) == {i \in Calls("cursor.executemany") : log[i].arg = stmt}

\* The insert with statement stmt raised: its executemany, or the commit
\* that follows it.
InsertRaised(stmt) ==
    \E i \in Executemany(stmt) :
        \/ ~log[i].ok
        \/ /\ i + 1 \in DOMAIN log
           /\ log[i + 1].call = "connection.commit"
           /\ ~log[i + 1].ok

\* C1: on a connection without the dialect attribute and with write_pandas
\* not importable, the unquoted insert is attempted first; whenever it (or
\* its commit) raises, the quoted insert is attempted exactly once before
\* an error reaches the caller, and the caller then sees an error only when
\* the retry failed too, the combined one with both messages.
C1_QuotedRetryAfterUnquotedFails ==
    (pc = "done" /\ ~conn.dialect /\ ~conn.helper /\ Called("import write_pandas")) =>
        /\ \A i \in Executemany(QuotedSql) : \E j \in Executemany(UnquotedSql) : j < i
        /\ InsertRaised(UnquotedSql) =>
             /\ Cardinality(Executemany(QuotedSql)) = 1
             /\ outcome.state = "raised" =>
                  /\ InsertRaised(QuotedSql)
                  /\ Len(outcome.error) = 4
                  /\ outcome.error[1] = "Data insertion failed: "

\* C2: on a connection without the dialect attribute, when write_pandas runs
\* and reports failure, insert_data raises, and neither executemany nor
\* commit is called on the connection.
C2_HelperFailureIsFatal ==
    (pc = "done" /\ ~conn.dialect
        /\ \E i \in Calls("write_pandas") : log[i].arg = "not success") =>
        /\ outcome.state = "raised"
        /\ ~Called("cursor.executemany")
        /\ ~Called("connection.commit")

Checked  == Called("check_table_schema")
Created  == Called("create_table")
Inserted == Called("insert_data")

CreationFailed ==
    /\ outcome.state = "raised"
    /\ outcome.error[1] = "Table creation failed: "

\* C3: create_table_and_insert creates the table unconditionally when skip
\* is false; when skip is true, exactly when check_table_schema returns
\* false, which it does (raising nothing) when the catalog query raises;
\* create_table comes before insert_data; and insert_data is called in every
\* run in which the creation did not fail.
C3_CreateThenInsert ==
    op = "create_table_and_insert" =>
        /\ \A i \in Calls("create_table") : \A j \in Calls("insert_data") : i < j
        /\ \A i \in Calls("check_table_schema") : \A j \in Calls("create_table") : i < j
        /\ Cardinality(Calls("create_table")) <= 1
        /\ Cardinality(Calls("insert_data")) <= 1
        /\ pc \in {"insert_data", "done"} =>
             /\ ~skip => (Created /\ ~Checked)
             /\ skip => /\ Checked
                        /\ Created <=> ~schema_ok
                        /\ catalog.raises => ~schema_ok
                        /\ schema_ok = check_table_schema(model_fields, custom_mapping, catalog)
        /\ pc = "done" => (Inserted \/ CreationFailed)
        /\ (Inserted /\ Created) =>
             \E i \in DOMAIN log : /\ log[i].arg = DDL /\ log[i].ok
                                   /\ \A j \in Calls("insert_data") : i < j

C3_Witness ==
    /\ op = "create_table_and_insert" /\ pc = "done" /\ skip
    /\ catalog.raises /\ Created /\ Inserted /\ outcome = Returned

\* The call of create_table's primary method that raised, if one did.
PrimaryFailure ==
    {i \in DOMAIN log :
        /\ ~log[i].ok
        /\ \/ log[i].call = "cursor.execute" /\ log[i].arg = DDL
           \/ /\ log[i].call = "connection.cursor"
              /\ i > 1 /\ log[i - 1].call = "create_table"}
PrimaryOk == \E i \in Calls("cursor.execute") : log[i].arg = DDL /\ log[i].ok
SecondaryOk == \E i \in Calls("connection.execute") : log[i].ok
SecondaryFailed == \E i \in Calls("connection.execute") : ~log[i].ok

\* create_table has returned to its caller.
CreateTableReturned ==
    IF op = "create_table" THEN outcome = Returned ELSE pc \in {"insert_data"} \/ Inserted

====
